---- MODULE Spec2Model ----
(***************************************************************************)
(* LifeTracker MCP server: the tools of main.py and the base-server entry  *)
(* point of server.py, run against a model of the two DynamoDB tables they *)
(* use (ActivityLog, MemoryEntry).                                         *)
(*                                                                         *)
(* A table is a function from primary key (id) to item.  A read (Query on  *)
(* the user_name index, or Scan) walks the items in key order, examines at *)
(* most a page of them, applies the filter expression to the examined      *)
(* items and returns the survivors with a LastEvaluatedKey when the page   *)
(* ended before the data did.  The index is kept in step with its table,   *)
(* except under SpecRead, where it lags by the last write.                 *)
(* Every store call may fail (missing index, throttling, connectivity).    *)
(***************************************************************************)
EXTENDS Integers, Sequences, FiniteSets, TLC

\* ------------------------------------------------------------------ bounds
\* Readings of the wall clock run over 1..MaxClock; ids are clock readings.
MaxClock == 3
\* Number of items the store examines in one page of an unlimited read.
PageSize == 2
\* Number of items the two tables hold together.
MaxItems == 3
\* Number of items the two tables hold together where every create tool and
\* every kind of payload is exercised.
MaxCreated == 2

\* ------------------------------------------------------- values and inputs
None == "None"
NoAttr == "<absent>"
NoDate == 0
\* timestamp="": the empty string, which sorts before every ISO timestamp.
EmptyDate == -1
NoKey == 0
NoLimit == 0
NoResult == [none |-> TRUE]
NoCall == [op |-> "none"]
NoMade == [table |-> "none"]
\* _dynamodb = None
NoResource == 0
NoPeer == [pc |-> "idle"]

UserNames == {"A", "B"}
Tables == {"ActivityLog", "MemoryEntry"}
Modules == {"main", "server"}
Ids == 1..MaxClock
\* limit is at most 100 and 100 items of this kind fit in one page of the
\* store, so Limit, never the page, is what ends a limited read.
Limits == 1..PageSize
Dates == {1, 2}
ActivityTypes == {"food", "exercise"}

\* db: the two tables.  clock: the last reading of the wall clock.
\* pc, call, result: where the invocation in progress stands, its arguments
\* and locals, and the envelope it returned.  swept: the table, user and
\* count of the last successful undisturbed sweep, until the next write.
\* made: the last item a create tool wrote, with the payload it was given and
\* whether the user_name index of its table holds it yet.
\* dynamodb: the module-level _dynamodb of main.py and of server.py, each
\* NoResource or the resource boto3 built (the n-th it built is n).
\* peer: a second invocation of a delete tool that runs while the first is
\* between two of its store calls: its position, locals and result.
\* gone: the id delete_activity_log last removed, until the next write.
VARIABLES db, clock, pc, call, result, swept, made, dynamodb, peer, gone

vars == <<db, clock, pc, call, result, swept, made, dynamodb, peer, gone>>

\* ------------------------------------------------------------ the store
Least(S) == CHOOSE x \in S : \A y \in S : x <= y

RECURSIVE Ascending(_)
Ascending(S) == IF S = {} THEN <<>> ELSE <<Least(S)>> \o Ascending(S \ {Least(S)})

Take(s, n) == SubSeq(s, 1, IF Len(s) < n THEN Len(s) ELSE n)

Range(s) == {s[i] : i \in 1..Len(s)}

ExaminedIgnoresLimit(limit) == PageSize

\* Limit caps the number of items a read examines; without it the page does.
Examined(limit) == IF limit = NoLimit \/ limit > PageSize THEN PageSize ELSE limit

\* One page of a read.  keys: the ids the read walks (the whole table for a
\* Scan, the partition of one user_name for a Query on the index), after the
\* exclusive start key.  keep: the ids among them that pass the filter.
\* atEnd: whether the store reports a LastEvaluatedKey for a full page that
\* happens to end exactly at the last item.
ReadPage(tbl, keys, keep, limit, start, atEnd) ==
    LET walk == Ascending({i \in keys : i > start})
        seen == Take(walk, Examined(limit))
        more == \/ Len(walk) > Len(seen)
                \/ Len(seen) = Examined(limit) /\ atEnd
    IN  [Items |-> SelectSeq(seen, LAMBDA i : i \in keep),
         LastEvaluatedKey |-> IF more THEN seen[Len(seen)] ELSE NoKey]

PutItemTouching(tbl, item) ==
    [i \in DOMAIN tbl \cup {item.id} |-> IF i = item.id THEN item ELSE [tbl[i] EXCEPT !.updatedAt = item.updatedAt]]

PutItem(tbl, item) == [i \in DOMAIN tbl \cup {item.id} |-> IF i = item.id THEN item ELSE tbl[i]]

DeleteItemLeavesAll(tbl, id) == tbl

DeleteItem(tbl, id) == [i \in DOMAIN tbl \ {id} |-> tbl[i]]

\* The store has room for the put: it replaces an item or adds one.
HasRoom(t, item) ==
    \/ item.id \in DOMAIN db[t]
    \/ Cardinality(DOMAIN db.ActivityLog) + Cardinality(DOMAIN db.MemoryEntry) < MaxItems

ItemsOf(tbl, ids) == [k \in 1..Len(ids) |-> tbl[ids[k]]]

\* The user_name index of a table.  The store brings it up to date some time
\* after a put returns: until then it lacks the item last written.
Index(t) ==
    IF made.table = t /\ ~made.indexed THEN DeleteItem(db[t], made.item.id) ELSE db[t]

\* table.query(IndexName="user_name-index", KeyConditionExpression=Key("user_name").eq(user_name), ...)
Query(tbl, user_name, keep, limit, start, atEnd) ==
    ReadPage(tbl, {i \in DOMAIN tbl : tbl[i].user_name = user_name}, keep, limit, start, atEnd)

\* table.scan(FilterExpression=..., ConsistentRead=True, ...)
Scan(tbl, keep, limit, start, atEnd) ==
    ReadPage(tbl, DOMAIN tbl, keep, limit, start, atEnd)

\* Python truthiness of an optional string argument ("if user_name:").
Truthy(s) == s \notin {None, ""}

\* ------------------------------------------------------------- envelopes
ExceptEnvelopeRaises == [pc |-> "raised", result |-> NoResult]

ExceptEnvelopeCounts == [pc |-> "returned", result |-> [success |-> FALSE, error |-> "store", deleted_count |-> 0]]

\* except Exception as e: return {"success": False, "error": str(e)}
ExceptEnvelope == [pc |-> "returned", result |-> [success |-> FALSE, error |-> "store"]]

\* datetime.now(UTC): the wall clock has advanced by d since it was last read.
Now(d) == clock + d

\* ------------------------------------------------ main.py: payload models
\* A dict is a function from its keys to their values; a JSON text is the
\* set of the key/value pairs written in it.  An attribute value is a
\* string that is a JSON text ([json |-> ...]), a string that is not
\* ([text |-> ...]), or a native map of the store ([M |-> ...]).
JsonDumps(d) == [json |-> {<<k, d[k]>> : k \in DOMAIN d}]

JsonLoadsKeepsText(s) == s

JsonLoads(s) == [k \in {p[1] : p \in s.json} |-> (CHOOSE p \in s.json : p[1] = k)[2]]

\* The pydantic models of the payloads, with the fields that carry a bound
\* or a default (the nested nutrient dicts are left out).
Fields(model) ==
    CASE model = "ProcessedDataDrinkAndFood" -> {"description", "estimated_portion_size", "glycemic_load"}
      [] model = "ProcessedDataExercise" -> {"duration_min", "exercise_type", "intensity"}
      [] model = "ProcessedDataSleep" -> {"duration_hours", "quality", "notes"}
      [] model = "ProcessedDataSmoking" -> {"type", "quantity", "notes"}
      [] model = "ProcessedDataSupplement" -> {"name", "dosage", "unit", "notes"}
      [] model = "ProcessedDataStomach" -> {"symptoms", "severity", "notes"}
      [] model = "ProcessedDataGeneric" -> {"description", "category", "severity", "notes"}

Defaulted(model) ==
    Fields(model) \cap {"estimated_portion_size", "intensity", "quality", "notes", "severity", "category"}

InBoundsAny(model, raw) == TRUE

\* Field(ge=..., le=...)
InBounds(model, raw) ==
    CASE model = "ProcessedDataDrinkAndFood" -> raw.glycemic_load >= 0 /\ raw.glycemic_load <= 50
      [] model = "ProcessedDataExercise" -> raw.duration_min >= 1
      [] model = "ProcessedDataSleep" -> raw.duration_hours >= 0 /\ raw.duration_hours <= 24
      [] model = "ProcessedDataSmoking" -> raw.quantity >= 1
      [] model = "ProcessedDataSupplement" -> raw.dosage >= 0
      [] OTHER -> TRUE

\* Validation of the payload a caller sends against the model of the tool.
Valid(model, raw) ==
    /\ Fields(model) \ Defaulted(model) \subseteq DOMAIN raw
    /\ InBounds(model, raw)

\* The model instance the tool receives: unknown keys dropped, defaults filled.
Construct(model, raw) == [k \in Fields(model) |-> IF k \in DOMAIN raw THEN raw[k] ELSE None]

\* processed_data.model_dump(): the fields of the instance as a dict.
ModelDump(processed_data) == [k \in DOMAIN processed_data |-> processed_data[k]]

\* --------------------------------------------------- main.py: create tools
ActivityCreateOps ==
    {"create_food_or_drink_activity_log", "create_exercise_activity_log", "create_sleep_activity_log",
     "create_smoking_activity_log", "create_supplement_activity_log", "create_stomach_activity_log",
     "create_generic_activity_log"}

MemoryCreateOps ==
    {"create_food_drink_memory", "create_exercise_memory", "create_sleep_memory", "create_supplement_memory"}

CreateOps == ActivityCreateOps \cup MemoryCreateOps

TimestampOrNow(timestamp, now) == now

\* timestamp = timestamp or now
TimestampOr(timestamp, now) == IF timestamp \notin {NoDate, EmptyDate} THEN timestamp ELSE now

\* item = {"id": item_id, "timestamp": timestamp, "activityType": ..., "createdAt": now,
\*         "updatedAt": now, "processedData": json.dumps(...)}, then user_name:
\* always (item["user_name"] = user_name) or only when it is truthy.
ActivityItem(now, activity_type, processed_data, user_name, timestamp, always) ==
    [id |-> now,
     timestamp |-> TimestampOr(timestamp, now),
     activityType |-> activity_type,
     createdAt |-> now,
     updatedAt |-> now,
     processedData |-> JsonDumps(ModelDump(processed_data)),
     user_name |-> IF always \/ Truthy(user_name) THEN user_name ELSE NoAttr,
     owner |-> NoAttr]

\* item = {"id": item_id, "entryType": ..., "user_name": user_name, "data": json.dumps(...),
\*         "createdAt": now, "updatedAt": now}
MemoryItem(now, entry_type, processed_data, user_name) ==
    [id |-> now, entryType |-> entry_type, user_name |-> user_name,
     data |-> JsonDumps(ModelDump(processed_data)),
     createdAt |-> now, updatedAt |-> now]

\* return {"success": True, "message": ..., "data": item}
CreatedEnvelope(item) == [success |-> TRUE, message |-> "created", data |-> item]

\* The body of a create tool: build the item, put it, return it.  put_ok:
\* the outcome of table.put_item.
Create(op, t, processed_data, user_name, timestamp, item, put_ok) ==
    /\ pc = "idle"
    /\ item.id <= MaxClock
    /\ HasRoom(t, item)
    /\ clock' = item.id
    /\ call' = [op |-> op, table |-> t, user_name |-> user_name, timestamp |-> timestamp,
                processed_data |-> processed_data]
    /\ IF put_ok
       THEN /\ db' = [db EXCEPT ![t] = PutItem(db[t], item)]
            /\ pc' = "returned"
            /\ result' = CreatedEnvelope(item)
            /\ swept' = <<>>
       ELSE /\ pc' = ExceptEnvelope.pc
            /\ result' = ExceptEnvelope.result
            /\ UNCHANGED <<db, swept>>

\* The payload fails the validation of the tool's parameters: the body of
\* the tool does not run.
Reject(op, t, raw, user_name, timestamp) ==
    /\ pc = "idle"
    /\ pc' = "rejected"
    /\ call' = [op |-> op, table |-> t, user_name |-> user_name, timestamp |-> timestamp,
                processed_data |-> raw]
    /\ result' = NoResult
    /\ UNCHANGED <<db, clock, swept>>

\* The seven tools that write to ActivityLog differ by the model of the
\* payload, the activity type and whether user_name is stored always.
CreateActivityLog(op, model, activity_type, always, raw, user_name, timestamp, d, put_ok) ==
    IF ~Valid(model, raw)
    THEN Reject(op, "ActivityLog", raw, user_name, timestamp)
    ELSE Create(op, "ActivityLog", Construct(model, raw), user_name, timestamp,
                ActivityItem(Now(d), activity_type, Construct(model, raw), user_name, timestamp, always),
                put_ok)

create_food_or_drink_activity_log(activity_type, raw, user_name, timestamp, d, put_ok) ==
    CreateActivityLog("create_food_or_drink_activity_log", "ProcessedDataDrinkAndFood",
                      activity_type, TRUE, raw, user_name, timestamp, d, put_ok)

create_exercise_activity_log(raw, user_name, timestamp, d, put_ok) ==
    CreateActivityLog("create_exercise_activity_log", "ProcessedDataExercise",
                      "exercise", TRUE, raw, user_name, timestamp, d, put_ok)

create_sleep_activity_log(raw, user_name, timestamp, d, put_ok) ==
    CreateActivityLog("create_sleep_activity_log", "ProcessedDataSleep",
                      "sleep", FALSE, raw, user_name, timestamp, d, put_ok)

create_smoking_activity_log(raw, user_name, timestamp, d, put_ok) ==
    CreateActivityLog("create_smoking_activity_log", "ProcessedDataSmoking",
                      "smoking", FALSE, raw, user_name, timestamp, d, put_ok)

create_supplement_activity_log(raw, user_name, timestamp, d, put_ok) ==
    CreateActivityLog("create_supplement_activity_log", "ProcessedDataSupplement",
                      "supplement", FALSE, raw, user_name, timestamp, d, put_ok)

create_stomach_activity_log(raw, user_name, timestamp, d, put_ok) ==
    CreateActivityLog("create_stomach_activity_log", "ProcessedDataStomach",
                      "stomach", FALSE, raw, user_name, timestamp, d, put_ok)

create_generic_activity_log(activity_type, raw, user_name, timestamp, d, put_ok) ==
    CreateActivityLog("create_generic_activity_log", "ProcessedDataGeneric",
                      activity_type, FALSE, raw, user_name, timestamp, d, put_ok)

\* The four tools that write to MemoryEntry differ by the model of the
\* payload and the entry type.
CreateMemory(op, model, entry_type, raw, user_name, d, put_ok) ==
    IF ~Valid(model, raw)
    THEN Reject(op, "MemoryEntry", raw, user_name, NoDate)
    ELSE Create(op, "MemoryEntry", Construct(model, raw), user_name, NoDate,
                MemoryItem(Now(d), entry_type, Construct(model, raw), user_name), put_ok)

create_food_drink_memory(raw, user_name, d, put_ok) ==
    CreateMemory("create_food_drink_memory", "ProcessedDataDrinkAndFood", "food_drink", raw, user_name, d, put_ok)

create_exercise_memory(raw, user_name, d, put_ok) ==
    CreateMemory("create_exercise_memory", "ProcessedDataExercise", "exercise", raw, user_name, d, put_ok)

create_sleep_memory(raw, user_name, d, put_ok) ==
    CreateMemory("create_sleep_memory", "ProcessedDataSleep", "sleep", raw, user_name, d, put_ok)

create_supplement_memory(raw, user_name, d, put_ok) ==
    CreateMemory("create_supplement_memory", "ProcessedDataSupplement", "supplement", raw, user_name, d, put_ok)

\* ----------------------------------------------------- main.py: list tools
TimestampGteStrict(timestamp, start_date) == timestamp > start_date

\* Attr("timestamp").gte(start_date)
TimestampGte(timestamp, start_date) == timestamp >= start_date

\* Attr("timestamp").lte(end_date)
TimestampLte(timestamp, end_date) == timestamp <= end_date

\* The filter expressions appended for the optional arguments, ANDed together.
FilterExpressions(item, activity_type, start_date, end_date) ==
    /\ Truthy(activity_type) => item.activityType = activity_type
    /\ start_date # NoDate => TimestampGte(item.timestamp, start_date)
    /\ end_date # NoDate => TimestampLte(item.timestamp, end_date)

FallbackFilterOwnerOnly(tbl, user_name, activity_type, start_date, end_date) ==
    {i \in DOMAIN tbl : tbl[i].user_name = user_name}

QueryFilterNone(tbl, activity_type, start_date, end_date) == DOMAIN tbl

\* query_kwargs["FilterExpression"] on the indexed path
QueryFilter(tbl, activity_type, start_date, end_date) ==
    {i \in DOMAIN tbl : FilterExpressions(tbl[i], activity_type, start_date, end_date)}

\* scan_kwargs["FilterExpression"] on the fallback path: the owner equality first
FallbackFilter(tbl, user_name, activity_type, start_date, end_date) ==
    {i \in DOMAIN tbl : /\ tbl[i].user_name = user_name
                        /\ FilterExpressions(tbl[i], activity_type, start_date, end_date)}

ListEnvelopeNoCount(items) == [success |-> TRUE, data |-> items]

\* return {"success": True, "count": len(items), "data": items}
ListEnvelope(items) == [success |-> TRUE, count |-> Len(items), data |-> items]

\* isinstance(item[field], str)
IsStr(v) == DOMAIN v \subseteq {"json", "text"}

\* json.loads(s) returns: s is a JSON text.
JsonParses(s) == "json" \in DOMAIN s

TryLoadsBlanks(s) == IF JsonParses(s) THEN JsonLoads(s) ELSE [text |-> ""]

\* try: item[field] = json.loads(item[field])
\* except: pass
TryLoads(s) == IF JsonParses(s) THEN JsonLoads(s) ELSE s

\* for item in items: if field in item and isinstance(item[field], str):
\*     item[field] = json.loads(item[field]), unless it raises
ParseItems(items, field) ==
    [k \in 1..Len(items) |->
        IF field \in DOMAIN items[k] /\ IsStr(items[k][field])
        THEN [items[k] EXCEPT ![field] = TryLoads(@)]
        ELSE items[k]]

\* The body of get_activity_logs: the path it takes, and what it returns.
\* query_ok, scan_ok: the outcomes of table.query and table.scan.
ListActivityLogs(user_name, activity_type, limit, start_date, end_date, query_ok, scan_ok) ==
    LET tbl == db.ActivityLog
        idx == Index("ActivityLog")
        path == IF Truthy(user_name) /\ query_ok THEN "query" ELSE "scan"
        items ==
            IF path = "query"
            THEN ItemsOf(idx, Query(idx, user_name, QueryFilter(idx, activity_type, start_date, end_date),
                                    limit, NoKey, FALSE).Items)
            ELSE IF Truthy(user_name)
            THEN ItemsOf(tbl, Scan(tbl, FallbackFilter(tbl, user_name, activity_type, start_date, end_date),
                                   limit, NoKey, FALSE).Items)
            ELSE ItemsOf(tbl, Scan(tbl, QueryFilter(tbl, activity_type, start_date, end_date),
                                   limit, NoKey, FALSE).Items)
    IN  IF path = "scan" /\ ~scan_ok
        THEN [path |-> path, pc |-> ExceptEnvelope.pc, result |-> ExceptEnvelope.result]
        ELSE [path |-> path, pc |-> "returned",
              result |-> ListEnvelope(ParseItems(items, "processedData"))]

get_activity_logs(user_name, activity_type, limit, start_date, end_date, query_ok, scan_ok) ==
    /\ pc = "idle"
    /\ LET r == ListActivityLogs(user_name, activity_type, limit, start_date, end_date, query_ok, scan_ok)
       IN  /\ call' = [op |-> "get_activity_logs", table |-> "ActivityLog",
                       user_name |-> user_name, activity_type |-> activity_type,
                       limit |-> limit, start_date |-> start_date, end_date |-> end_date,
                       path |-> r.path]
           /\ pc' = r.pc
           /\ result' = r.result
    /\ UNCHANGED <<db, clock, swept>>

MemoryFilter(tbl, entry_type) ==
    {i \in DOMAIN tbl : Truthy(entry_type) => tbl[i].entryType = entry_type}

MemoryFallbackFilter(tbl, user_name, entry_type) ==
    {i \in DOMAIN tbl : /\ tbl[i].user_name = user_name
                        /\ Truthy(entry_type) => tbl[i].entryType = entry_type}

get_memory_entries(user_name, entry_type, limit, query_ok, scan_ok) ==
    /\ pc = "idle"
    /\ LET tbl == db.MemoryEntry
           idx == Index("MemoryEntry")
           path == IF query_ok THEN "query" ELSE "scan"
           items ==
               IF path = "query"
               THEN ItemsOf(idx, Query(idx, user_name, MemoryFilter(idx, entry_type), limit, NoKey, FALSE).Items)
               ELSE ItemsOf(tbl, Scan(tbl, MemoryFallbackFilter(tbl, user_name, entry_type),
                                      limit, NoKey, FALSE).Items)
       IN  /\ call' = [op |-> "get_memory_entries", table |-> "MemoryEntry",
                       user_name |-> user_name, entry_type |-> entry_type,
                       limit |-> limit, path |-> path]
           /\ IF path = "scan" /\ ~scan_ok
              THEN /\ pc' = ExceptEnvelope.pc
                   /\ result' = ExceptEnvelope.result
              ELSE /\ pc' = "returned"
                   /\ result' = ListEnvelope(ParseItems(items, "data"))
    /\ UNCHANGED <<db, clock, swept>>

\* ------------------------------------- main.py: recent-activities resource
ResourceDefaultLimit == 20

CallThroughUnfiltered(user_name, limit, query_ok, scan_ok) ==
    ListActivityLogs(None, None, limit, NoDate, NoDate, query_ok, scan_ok)

\* result = get_activity_logs(user_name=user_name, limit=limit)
CallThrough(user_name, limit, query_ok, scan_ok) ==
    ListActivityLogs(user_name, None, limit, NoDate, NoDate, query_ok, scan_ok)

get_recent_activities_resource(user_name, limit, query_ok, scan_ok) ==
    /\ pc = "idle"
    /\ LET r == CallThrough(user_name, limit, query_ok, scan_ok)
       IN  /\ call' = [op |-> "get_recent_activities_resource", table |-> "ActivityLog",
                       user_name |-> user_name, limit |-> limit, path |-> r.path,
                       query_ok |-> query_ok, scan_ok |-> scan_ok]
           /\ pc' = r.pc
           /\ result' = r.result
    /\ UNCHANGED <<db, clock, swept>>

\* ------------------------------------------------ main.py: delete by id
NotFoundEnvelopeAsError(activity_id) == [success |-> FALSE, error |-> "not found"]

\* return {"success": False, "message": f"Activity log {activity_id} not found"}
NotFoundEnvelope(activity_id) == [success |-> FALSE, message |-> "not found"]

DeletedEnvelopeIdOnly(deleted_item) ==
    [success |-> TRUE, message |-> "deleted", deleted_item |-> [id |-> deleted_item.id]]

\* return {"success": True, "message": ..., "deleted_item": deleted_item}
DeletedEnvelope(deleted_item) == [success |-> TRUE, message |-> "deleted", deleted_item |-> deleted_item]

\* delete_ok: the outcome of table.delete_item(Key={"id": activity_id}, ReturnValues="ALL_OLD").
delete_activity_log(activity_id, delete_ok) ==
    /\ pc = "idle"
    /\ call' = [op |-> "delete_activity_log", table |-> "ActivityLog", activity_id |-> activity_id,
                store_failed |-> ~delete_ok]
    /\ IF ~delete_ok
       THEN /\ pc' = ExceptEnvelope.pc
            /\ result' = ExceptEnvelope.result
            /\ UNCHANGED db
       ELSE /\ pc' = "returned"
            /\ db' = [db EXCEPT !.ActivityLog = DeleteItem(db.ActivityLog, activity_id)]
            /\ result' = IF activity_id \in DOMAIN db.ActivityLog
                         THEN DeletedEnvelope(db.ActivityLog[activity_id])
                         ELSE NotFoundEnvelope(activity_id)
    /\ UNCHANGED <<clock, swept>>

\* ------------------------------------------- main.py: delete all of a user
\* The two sweeps (delete_all_user_activities on ActivityLog,
\* delete_all_user_memories on MemoryEntry) are the same code on two tables.
SweepOps == {"delete_all_user_activities", "delete_all_user_memories"}

SweepTable(op) == IF op = "delete_all_user_activities" THEN "ActivityLog" ELSE "MemoryEntry"

\* FilterExpression=Attr("user_name").eq(user_name)
OwnedBy(tbl, user_name) == {i \in DOMAIN tbl : tbl[i].user_name = user_name}

SweepPageUnfiltered(t, user_name, using_query, start, atEnd) ==
    Scan(db[t], DOMAIN db[t], NoLimit, start, atEnd)

\* The page of the sweep: the indexed query, or the consistent scan.
SweepPage(t, user_name, using_query, start, atEnd) ==
    IF using_query
    THEN Query(Index(t), user_name, DOMAIN Index(t), NoLimit, start, atEnd)
    ELSE Scan(db[t], OwnedBy(db[t], user_name), NoLimit, start, atEnd)

PagePathFlips(using_query, pages) == IF using_query = (pages % 2 = 0) THEN "query" ELSE "scan"

\* if using_query: table.query(...) else: table.scan(...)
PagePath(using_query, pages) == IF using_query THEN "query" ELSE "scan"

StartFailsWithQuery(query_ok, scan_ok) == ~query_ok

\* The query raising is caught by the inner handler; the scan of the inner
\* handler raising is not.
StartFails(query_ok, scan_ok) == ~query_ok /\ ~scan_ok

\* First read: try the index, fall back to the scan when the query raises.
\* A failure of the fallback scan reaches the outer handler.  read: the
\* store read the call issued last; fallback: what became of the scan of
\* the inner handler.
DeleteAllStart(op, user_name, query_ok, scan_ok, atEnd) ==
    /\ pc = "idle"
    /\ LET t == SweepTable(op)
           response == SweepPage(t, user_name, query_ok, NoKey, atEnd)
           entry == [op |-> op, table |-> t, user_name |-> user_name,
                     using_query |-> query_ok,
                     read |-> PagePath(query_ok, 0),
                     fallback |-> IF query_ok THEN "unused" ELSE IF scan_ok THEN "done" ELSE "raised",
                     Items |-> response.Items,
                     LastEvaluatedKey |-> response.LastEvaluatedKey,
                     deleted_count |-> 0,
                     owned |-> Cardinality(OwnedBy(db[t], user_name)),
                     pages |-> 1,
                     deleted |-> {},
                     concurrent |-> {}]
       IN  IF StartFails(query_ok, scan_ok)
           THEN /\ pc' = ExceptEnvelope.pc
                /\ result' = ExceptEnvelope.result
                /\ call' = [entry EXCEPT !.Items = <<>>, !.LastEvaluatedKey = NoKey, !.pages = 0]
           ELSE /\ pc' = "deleting"
                /\ result' = NoResult
                /\ call' = entry
    /\ UNCHANGED <<db, clock, swept>>

\* for item in items: table.delete_item(Key={"id": item["id"]}); deleted_count += 1
DeleteNext(delete_ok) ==
    /\ pc = "deleting"
    /\ call.Items # <<>>
    /\ IF delete_ok
       THEN /\ db' = [db EXCEPT ![call.table] = DeleteItem(db[call.table], Head(call.Items))]
            /\ call' = [call EXCEPT !.Items = Tail(call.Items),
                                    !.deleted_count = call.deleted_count + 1,
                                    !.deleted = call.deleted \cup {Head(call.Items)}]
            /\ UNCHANGED <<pc, result>>
       ELSE /\ pc' = ExceptEnvelope.pc
            /\ result' = ExceptEnvelope.result
            /\ UNCHANGED <<db, call>>
    /\ UNCHANGED <<clock, swept>>

LoopStopsAfterFirstPage(response) == FALSE

LoopNeverStops(response) == TRUE

\* while "LastEvaluatedKey" in response:
LoopContinues(response) == response.LastEvaluatedKey # NoKey

\* The next page, by the path the first read chose; a failure of either read
\* inside the loop reaches the outer handler.
NextPage(read_ok, atEnd) ==
    /\ pc = "deleting"
    /\ call.Items = <<>>
    /\ LoopContinues(call)
    /\ IF read_ok
       THEN LET path == PagePath(call.using_query, call.pages)
                response == SweepPage(call.table, call.user_name, path = "query",
                                      call.LastEvaluatedKey, atEnd)
            IN  /\ call' = [call EXCEPT !.Items = response.Items,
                                        !.LastEvaluatedKey = response.LastEvaluatedKey,
                                        !.pages = call.pages + 1,
                                        !.read = path]
                /\ UNCHANGED <<pc, result>>
       ELSE /\ pc' = ExceptEnvelope.pc
            /\ result' = ExceptEnvelope.result
            /\ UNCHANGED call
    /\ UNCHANGED <<db, clock, swept>>

\* return {"success": True, "message": ..., "deleted_count": deleted_count, "user_name": user_name}
SweptEnvelope(deleted_count, user_name) ==
    [success |-> TRUE, message |-> "deleted", deleted_count |-> deleted_count, user_name |-> user_name]

DeleteAllReturn ==
    /\ pc = "deleting"
    /\ call.Items = <<>>
    /\ ~LoopContinues(call)
    /\ pc' = "returned"
    /\ result' = SweptEnvelope(call.deleted_count, call.user_name)
    /\ UNCHANGED <<db, clock, call, swept>>

\* Another invocation of a create tool reaches the store while the sweep is
\* between two of its store calls.
ConcurrentCreate(t, item) ==
    /\ pc = "deleting"
    /\ item.id <= MaxClock
    /\ HasRoom(t, item)
    /\ clock' = item.id
    /\ db' = [db EXCEPT ![t] = PutItem(db[t], item)]
    /\ call' = [call EXCEPT !.concurrent = call.concurrent \cup {<<t, item.user_name>>}]
    /\ swept' = <<>>
    /\ UNCHANGED <<pc, result>>

\* A second invocation of a sweep, by another request, runs the same code
\* against the same tables while the first is between two store calls.
PeerStart(op, user_name, query_ok, scan_ok, atEnd) ==
    /\ pc = "deleting"
    /\ peer.pc = "idle"
    /\ LET t == SweepTable(op)
           response == SweepPage(t, user_name, query_ok, NoKey, atEnd)
           entry == [pc |-> "deleting", op |-> op, table |-> t, user_name |-> user_name,
                     using_query |-> query_ok,
                     Items |-> response.Items,
                     LastEvaluatedKey |-> response.LastEvaluatedKey,
                     deleted_count |-> 0,
                     result |-> NoResult]
       IN  peer' = IF StartFails(query_ok, scan_ok)
                   THEN [entry EXCEPT !.pc = ExceptEnvelope.pc, !.result = ExceptEnvelope.result,
                                      !.Items = <<>>, !.LastEvaluatedKey = NoKey]
                   ELSE entry
    /\ UNCHANGED <<db, clock, pc, call, result, swept>>

PeerDeleteNext(delete_ok) ==
    /\ peer.pc = "deleting"
    /\ peer.Items # <<>>
    /\ IF delete_ok
       THEN /\ db' = [db EXCEPT ![peer.table] = DeleteItem(db[peer.table], Head(peer.Items))]
            /\ peer' = [peer EXCEPT !.Items = Tail(peer.Items),
                                    !.deleted_count = peer.deleted_count + 1]
       ELSE /\ peer' = [peer EXCEPT !.pc = ExceptEnvelope.pc, !.result = ExceptEnvelope.result]
            /\ UNCHANGED db
    /\ UNCHANGED <<clock, pc, call, result, swept>>

PeerNextPage(read_ok, atEnd) ==
    /\ peer.pc = "deleting"
    /\ peer.Items = <<>>
    /\ LoopContinues(peer)
    /\ IF read_ok
       THEN LET response == SweepPage(peer.table, peer.user_name, peer.using_query,
                                      peer.LastEvaluatedKey, atEnd)
            IN  peer' = [peer EXCEPT !.Items = response.Items,
                                    !.LastEvaluatedKey = response.LastEvaluatedKey]
       ELSE peer' = [peer EXCEPT !.pc = ExceptEnvelope.pc, !.result = ExceptEnvelope.result]
    /\ UNCHANGED <<db, clock, pc, call, result, swept>>

PeerReturn ==
    /\ peer.pc = "deleting"
    /\ peer.Items = <<>>
    /\ ~LoopContinues(peer)
    /\ peer' = [peer EXCEPT !.pc = "returned",
                            !.result = SweptEnvelope(peer.deleted_count, peer.user_name)]
    /\ UNCHANGED <<db, clock, pc, call, result, swept>>

\* A second invocation of delete_activity_log, by another request, while a
\* sweep is between two store calls.
PeerDeleteOne(activity_id, delete_ok) ==
    /\ pc = "deleting"
    /\ peer.pc = "idle"
    /\ peer' = [pc |-> "returned", op |-> "delete_activity_log", table |-> "ActivityLog",
                activity_id |-> activity_id,
                result |-> IF ~delete_ok
                           THEN ExceptEnvelope.result
                           ELSE IF activity_id \in DOMAIN db.ActivityLog
                           THEN DeletedEnvelope(db.ActivityLog[activity_id])
                           ELSE NotFoundEnvelope(activity_id)]
    /\ db' = IF delete_ok
             THEN [db EXCEPT !.ActivityLog = DeleteItem(db.ActivityLog, activity_id)]
             ELSE db
    /\ UNCHANGED <<clock, pc, call, result, swept>>

\* ------------------------------------------- other writers of the tables
\* The payload attribute as a writer other than the create tools leaves it:
\* a string that is not a JSON text, or a native map.
ForeignPayloads == {[text |-> "{half"], [M |-> {<<"description", "d">>}]}

ForeignItem(t, id, payload, user_name) ==
    IF t = "ActivityLog"
    THEN [id |-> id, timestamp |-> id, activityType |-> "food", createdAt |-> id, updatedAt |-> id,
          processedData |-> payload, user_name |-> user_name, owner |-> NoAttr]
    ELSE [id |-> id, entryType |-> "food_drink", user_name |-> user_name, data |-> payload,
          createdAt |-> id, updatedAt |-> id]

\* Another client of the store puts an item between two invocations.
ForeignPut(t, item) ==
    /\ pc = "idle"
    /\ item.id \notin DOMAIN db[t]
    /\ HasRoom(t, item)
    /\ db' = [db EXCEPT ![t] = PutItem(db[t], item)]
    /\ swept' = <<>>
    /\ UNCHANGED <<clock, pc, call, result>>

\* ------------------------------------------------- the connection handle
GetDynamodbAnew(m) == dynamodb' = [dynamodb EXCEPT ![m] = @ + 1]

\* if _dynamodb is None: _dynamodb = boto3.resource(...)
\* return _dynamodb
GetDynamodb(m) == dynamodb' = [dynamodb EXCEPT ![m] = IF @ = NoResource THEN @ + 1 ELSE @]

\* The step of a tool of module m: its body starts with get_table(...),
\* unless the call was refused before the body ran.
GetTable(m) == IF pc' \in {"rejected", "raised"} THEN UNCHANGED dynamodb ELSE GetDynamodb(m)

\* ------------------------------------------------- server.py: call_tool
ServerDefaultLimit == 50

\* Python binds **arguments to the parameters of the tool: every required
\* parameter must be present and no other keyword is accepted (TypeError).
Binds(arguments, required, params) ==
    /\ required \subseteq DOMAIN arguments
    /\ DOMAIN arguments \subseteq params

Arg(arguments, key, default) == IF key \in DOMAIN arguments THEN arguments[key] ELSE default

\* item = {"id": item_id, "timestamp": now, "activityType": ..., "createdAt": now,
\*         "updatedAt": now}; item["owner"] = owner if owner
ServerItem(now, activity_type, owner) ==
    [id |-> now, timestamp |-> now, activityType |-> activity_type,
     createdAt |-> now, updatedAt |-> now, user_name |-> NoAttr,
     owner |-> IF Truthy(owner) THEN owner ELSE NoAttr]

\* scan_kwargs["FilterExpression"] = Attr("owner").eq(owner) when owner is given
ServerFilter(tbl, owner) == {i \in DOMAIN tbl : Truthy(owner) => tbl[i].owner = owner}

\* raise ValueError(f"Unknown tool: {name}"); also the TypeError of a call
\* whose arguments do not bind.
Raise == [pc |-> "raised", result |-> NoResult]

call_tool(name, arguments, d, store_ok) ==
    /\ pc = "idle"
    /\ call' = [op |-> "call_tool", table |-> "ActivityLog", name |-> name, arguments |-> arguments]
    /\ swept' = <<>>
    /\ IF name = "create_activity_log"
       THEN IF ~Binds(arguments, {"activity_type", "raw_input"}, {"activity_type", "raw_input", "owner"})
            THEN /\ pc' = Raise.pc
                 /\ result' = Raise.result
                 /\ UNCHANGED <<db, clock>>
            ELSE LET item == ServerItem(Now(d), arguments.activity_type, Arg(arguments, "owner", None))
                 IN  /\ item.id <= MaxClock
                     /\ HasRoom("ActivityLog", item)
                     /\ clock' = item.id
                     /\ IF store_ok
                        THEN /\ db' = [db EXCEPT !.ActivityLog = PutItem(db.ActivityLog, item)]
                             /\ pc' = "returned"
                             /\ result' = CreatedEnvelope(item)
                        ELSE /\ pc' = ExceptEnvelope.pc
                             /\ result' = ExceptEnvelope.result
                             /\ UNCHANGED db
       ELSE IF name = "get_activity_logs"
       THEN /\ IF ~Binds(arguments, {}, {"owner", "limit"})
               THEN /\ pc' = Raise.pc
                    /\ result' = Raise.result
               ELSE IF ~store_ok
               THEN /\ pc' = ExceptEnvelope.pc
                    /\ result' = ExceptEnvelope.result
               ELSE LET tbl == db.ActivityLog
                        response == Scan(tbl, ServerFilter(tbl, Arg(arguments, "owner", None)),
                                         Arg(arguments, "limit", ServerDefaultLimit), NoKey, FALSE)
                    IN  /\ pc' = "returned"
                        /\ result' = ListEnvelope(ItemsOf(tbl, response.Items))
            /\ UNCHANGED <<db, clock>>
       ELSE /\ pc' = Raise.pc
            /\ result' = Raise.result
            /\ UNCHANGED <<db, clock>>

TypeOK ==
    /\ clock \in Ids
    /\ pc \in {"idle", "deleting", "returned", "raised", "rejected"}
    /\ \A t \in Tables : DOMAIN db[t] \subseteq Ids /\ \A i \in DOMAIN db[t] : db[t][i].id = i

Init ==
    /\ db = [t \in Tables |-> <<>>]
    /\ clock = 1
    /\ pc = "idle"
    /\ call = NoCall
    /\ result = NoResult
    /\ swept = <<>>
    /\ made = NoMade
    /\ dynamodb = [m \in Modules |-> NoResource]
    /\ peer = NoPeer
    /\ gone = NoKey

\* The caller takes the result; the tool is ready for the next invocation.
Return ==
    /\ pc \in {"returned", "raised", "rejected"}
    /\ pc' = "idle"
    /\ call' = NoCall
    /\ result' = NoResult
    /\ swept' = IF /\ pc = "returned"
                   /\ call.op \in SweepOps
                   /\ result.success
                   /\ call.concurrent = {}
                THEN <<call.table, call.user_name, result.deleted_count>>
                ELSE swept
    /\ UNCHANGED <<db, clock>>

\* ------------------------------------------------------ specifications
ToolNames == {"create_activity_log", "get_activity_logs", "delete_activity_log"}

Arguments ==
    {[activity_type |-> "food", raw_input |-> "r"],
     [activity_type |-> "food", raw_input |-> "r", user_name |-> "A"],
     [owner |-> "A", limit |-> 1],
     [limit |-> 1]}

\* Payloads as callers send them: within and outside the bounds of the
\* model, with and without the optional fields.
FoodPayloads == {[description |-> "d", glycemic_load |-> g] : g \in {-1, 0, 50, 51}}

ExercisePayloads ==
    {[duration_min |-> n, exercise_type |-> "run"] : n \in {0, 1}}
        \cup {[duration_min |-> 1, exercise_type |-> "run", intensity |-> "low"]}

SleepPayloads == {[duration_hours |-> h] : h \in {-1, 24, 25}}

SmokingPayloads == {[type |-> "vape", quantity |-> q] : q \in {0, 1}}

SupplementPayloads == {[name |-> "D", dosage |-> x, unit |-> "mg"] : x \in {-1, 0}}

StomachPayloads == {[symptoms |-> <<"gas">>]}

GenericPayloads == {[description |-> "d"]}

StoreSize == Cardinality(DOMAIN db.ActivityLog) + Cardinality(DOMAIN db.MemoryEntry)

\* The index of each table is in step with the table.
IndexInStep == UNCHANGED made

\* One caller at a time, whose connection handle and past deletes are not
\* followed.
OneCaller == UNCHANGED <<dynamodb, peer, gone>>

\* The id delete_activity_log removed in this step, until a later write.
GoneAfter ==
    gone' = IF pc' = "returned" /\ call'.op = "delete_activity_log" /\ result'.success
            THEN call'.activity_id
            ELSE IF db' # db THEN NoKey ELSE gone

\* The index of a table lags by the last write: a successful create is
\* recorded as not yet indexed, until Propagate (the store brings the index
\* up to date at some time between two invocations).
IndexLags ==
    made' = IF pc' = "returned" /\ call'.op \in CreateOps /\ result'.success
            THEN [table |-> call'.table, item |-> result'.data,
                  processed_data |-> call'.processed_data, indexed |-> FALSE]
            ELSE made

Propagate ==
    /\ pc = "idle"
    /\ made.table \in Tables
    /\ ~made.indexed
    /\ made' = [made EXCEPT !.indexed = TRUE]
    /\ UNCHANGED <<db, clock, pc, call, result, swept>>
    /\ OneCaller

\* The tools with the arguments that the sweep, delete and envelope
\* properties need: items differ by table, id and user_name.
Next ==
    \/ \E raw \in GenericPayloads, u \in UserNames, d \in {0, 1}, ok \in BOOLEAN :
          create_generic_activity_log("food", raw, u, NoDate, d, ok) /\ IndexInStep /\ OneCaller
    \/ \E u \in UserNames, d \in {0, 1}, ok \in BOOLEAN :
          create_food_drink_memory([description |-> "d", glycemic_load |-> 0], u, d, ok) /\ IndexInStep /\ OneCaller
    \/ \E u \in UserNames \cup {None}, l \in Limits, q, sc \in BOOLEAN :
          get_activity_logs(u, None, l, NoDate, NoDate, q, sc) /\ IndexInStep /\ OneCaller
    \/ \E u \in UserNames, l \in Limits, q, sc \in BOOLEAN :
          get_memory_entries(u, None, l, q, sc) /\ IndexInStep /\ OneCaller
    \/ \E i \in Ids, ok \in BOOLEAN : delete_activity_log(i, ok) /\ IndexInStep /\ OneCaller
    \/ \E op \in SweepOps, u \in UserNames, q, sc, e \in BOOLEAN :
          DeleteAllStart(op, u, q, sc, e) /\ IndexInStep /\ OneCaller
    \/ \E ok \in BOOLEAN : DeleteNext(ok) /\ IndexInStep /\ OneCaller
    \/ \E ok, e \in BOOLEAN : NextPage(ok, e) /\ IndexInStep /\ OneCaller
    \/ DeleteAllReturn /\ IndexInStep /\ OneCaller
    \/ \E u \in UserNames, d \in {0, 1} :
          /\ ConcurrentCreate(call.table,
                IF call.table = "ActivityLog"
                THEN ActivityItem(Now(d), "food", Construct("ProcessedDataGeneric", [description |-> "d"]),
                                  u, NoDate, FALSE)
                ELSE MemoryItem(Now(d), "food_drink",
                                Construct("ProcessedDataDrinkAndFood", [description |-> "d", glycemic_load |-> 0]),
                                u))
          /\ IndexInStep /\ OneCaller
    \/ \E n \in ToolNames, a \in Arguments, d \in {0, 1}, ok \in BOOLEAN :
          call_tool(n, a, d, ok) /\ IndexInStep /\ OneCaller
    \/ Return /\ IndexInStep /\ OneCaller

Spec == Init /\ [][Next]_vars

\* The list tool with every filter argument, over items that differ by
\* user_name, activityType and timestamp.
NextList ==
    \/ \E raw \in GenericPayloads, t \in ActivityTypes, u \in UserNames, ts \in Dates, d \in {0, 1} :
          create_generic_activity_log(t, raw, u, ts, d, TRUE) /\ IndexInStep /\ OneCaller
    \/ \E u \in {None, "A"}, t \in {None, "food"}, l \in Limits,
          sd, ed \in {NoDate} \cup Dates, q \in BOOLEAN :
          get_activity_logs(u, t, l, sd, ed, q, TRUE) /\ IndexInStep /\ OneCaller
    \/ Return /\ IndexInStep /\ OneCaller

SpecList == Init /\ [][NextList]_vars

\* Every create tool of main.py, with payloads within and outside the
\* bounds, user_name given and empty, timestamp given, empty and omitted,
\* on a store of at most MaxCreated items.
NextCreate ==
    \/ \E raw \in FoodPayloads, d \in {0, 1} :
          /\ StoreSize < MaxCreated
          /\ create_food_or_drink_activity_log("food", raw, "A", NoDate, d, TRUE)
          /\ IndexInStep /\ OneCaller
    \/ \E raw \in ExercisePayloads, u \in {"A", ""}, d \in {0, 1}, ok \in BOOLEAN :
          /\ StoreSize < MaxCreated
          /\ create_exercise_activity_log(raw, u, NoDate, d, ok)
          /\ IndexInStep /\ OneCaller
    \/ \E raw \in SleepPayloads, u \in {"A", ""}, d \in {0, 1} :
          /\ StoreSize < MaxCreated
          /\ create_sleep_activity_log(raw, u, NoDate, d, TRUE)
          /\ IndexInStep /\ OneCaller
    \/ \E raw \in SmokingPayloads, d \in {0, 1} :
          /\ StoreSize < MaxCreated
          /\ create_smoking_activity_log(raw, "A", NoDate, d, TRUE)
          /\ IndexInStep /\ OneCaller
    \/ \E raw \in SupplementPayloads, d \in {0, 1} :
          /\ StoreSize < MaxCreated
          /\ create_supplement_activity_log(raw, "A", NoDate, d, TRUE)
          /\ IndexInStep /\ OneCaller
    \/ \E raw \in StomachPayloads, d \in {0, 1} :
          /\ StoreSize < MaxCreated
          /\ create_stomach_activity_log(raw, "", NoDate, d, TRUE)
          /\ IndexInStep /\ OneCaller
    \/ \E raw \in GenericPayloads, u \in {"A", ""}, ts \in {NoDate, EmptyDate, 2}, d \in {0, 1} :
          /\ StoreSize < MaxCreated
          /\ create_generic_activity_log("mood", raw, u, ts, d, TRUE)
          /\ IndexInStep /\ OneCaller
    \/ \E raw \in FoodPayloads, u \in {"A", ""}, d \in {0, 1} :
          /\ StoreSize < MaxCreated
          /\ create_food_drink_memory(raw, u, d, TRUE)
          /\ IndexInStep /\ OneCaller
    \/ \E raw \in ExercisePayloads, d \in {0, 1} :
          /\ StoreSize < MaxCreated
          /\ create_exercise_memory(raw, "A", d, TRUE)
          /\ IndexInStep /\ OneCaller
    \/ \E raw \in SleepPayloads, d \in {0, 1} :
          /\ StoreSize < MaxCreated
          /\ create_sleep_memory(raw, "A", d, TRUE)
          /\ IndexInStep /\ OneCaller
    \/ \E raw \in SupplementPayloads, d \in {0, 1} :
          /\ StoreSize < MaxCreated
          /\ create_supplement_memory(raw, "A", d, TRUE)
          /\ IndexInStep /\ OneCaller
    \/ Return /\ IndexInStep /\ OneCaller

SpecCreate == Init /\ [][NextCreate]_vars

\* Create, then read: items of two users in both tables, read by the list
\* tools and the resource on both paths while the index lags.
NextRead ==
    \/ \E raw \in ExercisePayloads, u \in UserNames, d \in {0, 1} :
          /\ StoreSize < MaxCreated
          /\ create_exercise_activity_log(raw, u, NoDate, d, TRUE)
          /\ IndexLags /\ OneCaller
    \/ \E u \in UserNames, d \in {0, 1} :
          /\ StoreSize < MaxCreated
          /\ create_food_drink_memory([description |-> "d", glycemic_load |-> 50], u, d, TRUE)
          /\ IndexLags /\ OneCaller
    \/ \E u \in UserNames \cup {"", None}, l \in Limits, q \in BOOLEAN :
          get_activity_logs(u, None, l, NoDate, NoDate, q, TRUE) /\ UNCHANGED made /\ OneCaller
    \/ \E u \in UserNames \cup {""}, l \in Limits, q \in BOOLEAN :
          get_memory_entries(u, None, l, q, TRUE) /\ UNCHANGED made /\ OneCaller
    \/ \E u \in UserNames, l \in {1, ResourceDefaultLimit}, q, sc \in BOOLEAN :
          get_recent_activities_resource(u, l, q, sc) /\ UNCHANGED made /\ OneCaller
    \/ Propagate
    \/ Return /\ UNCHANGED made /\ OneCaller

SpecRead == Init /\ [][NextRead]_vars

\* The two paths of a read, the query on the index that lags and the
\* consistent scan, taken by the list tools with every filter and by the
\* sweeps, on a store of at most MaxCreated items that differ by table,
\* user_name, activityType and timestamp.
NextPaths ==
    \/ \E raw \in GenericPayloads, t \in ActivityTypes, u \in UserNames, d \in {0, 1} :
          /\ StoreSize < MaxCreated
          /\ create_generic_activity_log(t, raw, u, NoDate, d, TRUE)
          /\ IndexLags /\ OneCaller
    \/ \E u \in UserNames, d \in {0, 1} :
          /\ StoreSize < MaxCreated
          /\ create_food_drink_memory([description |-> "d", glycemic_load |-> 0], u, d, TRUE)
          /\ IndexLags /\ OneCaller
    \/ \E u \in {"A", None}, t \in {None, "food"}, l \in {1, PageSize},
          dates \in {<<NoDate, NoDate>>, <<2, 2>>}, q \in BOOLEAN :
          get_activity_logs(u, t, l, dates[1], dates[2], q, TRUE) /\ UNCHANGED made /\ OneCaller
    \/ \E t \in {None, "food_drink"}, l \in {1, PageSize}, q \in BOOLEAN :
          get_memory_entries("A", t, l, q, TRUE) /\ UNCHANGED made /\ OneCaller
    \/ \E op \in SweepOps, q, e \in BOOLEAN :
          DeleteAllStart(op, "A", q, TRUE, e) /\ UNCHANGED made /\ OneCaller
    \/ DeleteNext(TRUE) /\ UNCHANGED made /\ OneCaller
    \/ \E e \in BOOLEAN : NextPage(TRUE, e) /\ UNCHANGED made /\ OneCaller
    \/ DeleteAllReturn /\ UNCHANGED made /\ OneCaller
    \/ Propagate
    \/ Return /\ UNCHANGED made /\ OneCaller

SpecPaths == Init /\ [][NextPaths]_vars

\* The next step of a sweep in progress: the body of the tool is one
\* sequential loop, so the step that is due is taken.
SweepStep ==
    \/ \E ok \in BOOLEAN : DeleteNext(ok) /\ IndexInStep /\ OneCaller
    \/ \E ok, e \in BOOLEAN : NextPage(ok, e) /\ IndexInStep /\ OneCaller
    \/ DeleteAllReturn /\ IndexInStep /\ OneCaller

\* A sweep with no other writer while it runs, over tables of one or more
\* pages; a sweep that has started keeps running.
NextTerm ==
    \/ \E raw \in GenericPayloads, u \in UserNames, d \in {0, 1} :
          /\ create_generic_activity_log("food", raw, u, NoDate, d, TRUE)
          /\ IndexInStep /\ OneCaller
    \/ \E d \in {0, 1} :
          /\ create_food_drink_memory([description |-> "d", glycemic_load |-> 0], "A", d, TRUE)
          /\ IndexInStep /\ OneCaller
    \/ \E op \in SweepOps, q, sc, e \in BOOLEAN :
          DeleteAllStart(op, "A", q, sc, e) /\ IndexInStep /\ OneCaller
    \/ SweepStep
    \/ Return /\ IndexInStep /\ OneCaller

SpecTerm == Init /\ [][NextTerm]_vars /\ WF_vars(SweepStep)

\* The tools of both modules one after another, on a store of at most
\* MaxCreated items that another client writes to as well: the connection
\* handle of each module and the last id deleted are followed.
NextTools ==
    \/ \E raw \in ExercisePayloads, d \in {0, 1} :
          /\ StoreSize < MaxCreated
          /\ create_exercise_activity_log(raw, "A", NoDate, d, TRUE)
          /\ GetTable("main") /\ GoneAfter /\ UNCHANGED <<made, peer>>
    \/ \E d \in {0, 1} :
          /\ StoreSize < MaxCreated
          /\ create_food_drink_memory([description |-> "d", glycemic_load |-> 0], "A", d, TRUE)
          /\ GetTable("main") /\ GoneAfter /\ UNCHANGED <<made, peer>>
    \/ \E t \in Tables, i \in Ids, payload \in ForeignPayloads :
          /\ StoreSize < MaxCreated
          /\ ForeignPut(t, ForeignItem(t, i, payload, "A"))
          /\ GoneAfter /\ UNCHANGED <<made, peer, dynamodb>>
    \/ \E q, sc \in BOOLEAN :
          /\ get_activity_logs("A", None, PageSize, NoDate, NoDate, q, sc)
          /\ GetTable("main") /\ GoneAfter /\ UNCHANGED <<made, peer>>
    \/ \E q \in BOOLEAN :
          /\ get_memory_entries("A", None, PageSize, q, TRUE)
          /\ GetTable("main") /\ GoneAfter /\ UNCHANGED <<made, peer>>
    \/ \E i \in Ids, ok \in BOOLEAN :
          /\ delete_activity_log(i, ok)
          /\ GetTable("main") /\ GoneAfter /\ UNCHANGED <<made, peer>>
    \/ \E n \in ToolNames, a \in Arguments, d \in {0, 1} :
          /\ StoreSize < MaxCreated
          /\ call_tool(n, a, d, TRUE)
          /\ GetTable("server") /\ GoneAfter /\ UNCHANGED <<made, peer>>
    \/ Return /\ UNCHANGED <<made, peer, dynamodb, gone>>

SpecTools == Init /\ [][NextTools]_vars

\* The sweeps over items of two users and of none in both tables, one
\* invocation at a time, and the list of a user on both paths.
NextSweep ==
    \/ \E l \in Limits, q, sc \in BOOLEAN :
          get_activity_logs("A", None, l, NoDate, NoDate, q, sc) /\ IndexInStep /\ OneCaller
    \/ \E raw \in GenericPayloads, u \in UserNames \cup {""}, d \in {0, 1} :
          /\ create_generic_activity_log("food", raw, u, NoDate, d, TRUE)
          /\ IndexInStep /\ OneCaller
    \/ \E u \in UserNames, d \in {0, 1} :
          /\ create_food_drink_memory([description |-> "d", glycemic_load |-> 0], u, d, TRUE)
          /\ IndexInStep /\ OneCaller
    \/ \E op \in SweepOps, u \in UserNames, q, sc, e \in BOOLEAN :
          DeleteAllStart(op, u, q, sc, e) /\ IndexInStep /\ OneCaller
    \/ \E ok \in BOOLEAN : DeleteNext(ok) /\ IndexInStep /\ OneCaller
    \/ \E ok, e \in BOOLEAN : NextPage(ok, e) /\ IndexInStep /\ OneCaller
    \/ DeleteAllReturn /\ IndexInStep /\ OneCaller
    \/ Return /\ IndexInStep /\ OneCaller

SpecSweep == Init /\ [][NextSweep]_vars

\* A sweep of ActivityLog with a second delete invocation (the same sweep,
\* or a delete by id) interleaved at the store calls, on a store of at most
\* MaxCreated items.
NextPair ==
    \/ \E raw \in GenericPayloads, u \in UserNames, d \in {0, 1} :
          /\ StoreSize < MaxCreated
          /\ create_generic_activity_log("food", raw, u, NoDate, d, TRUE)
          /\ IndexInStep /\ OneCaller
    \/ \E q, sc, e \in BOOLEAN :
          DeleteAllStart("delete_all_user_activities", "A", q, sc, e) /\ IndexInStep /\ OneCaller
    \/ \E ok \in BOOLEAN : DeleteNext(ok) /\ IndexInStep /\ OneCaller
    \/ \E ok, e \in BOOLEAN : NextPage(ok, e) /\ IndexInStep /\ OneCaller
    \/ DeleteAllReturn /\ IndexInStep /\ OneCaller
    \/ \E q, sc, e \in BOOLEAN :
          PeerStart(call.op, call.user_name, q, sc, e) /\ UNCHANGED <<made, dynamodb, gone>>
    \/ \E ok \in BOOLEAN : PeerDeleteNext(ok) /\ UNCHANGED <<made, dynamodb, gone>>
    \/ \E ok, e \in BOOLEAN : PeerNextPage(ok, e) /\ UNCHANGED <<made, dynamodb, gone>>
    \/ PeerReturn /\ UNCHANGED <<made, dynamodb, gone>>
    \/ \E i \in Ids, ok \in BOOLEAN :
          PeerDeleteOne(i, ok) /\ UNCHANGED <<made, dynamodb, gone>>
    \/ /\ peer.pc # "deleting"
       /\ Return
       /\ peer' = NoPeer
       /\ UNCHANGED <<made, dynamodb, gone>>

SpecPair == Init /\ [][NextPair]_vars

\* ------------------------------------------------------------ properties
Swept == pc = "returned" /\ call.op \in SweepOps

SweptOk == Swept /\ result.success

Listed == pc = "returned" /\ call.op \in {"get_activity_logs", "get_memory_entries"} /\ result.success

C5_FallbackSameAsIndexed ==
    (Listed /\ call.op = "get_activity_logs" /\ call.user_name # None /\ call.path = "scan")
        => LET tbl == db.ActivityLog
               indexed == Query(tbl, call.user_name,
                                QueryFilter(tbl, call.activity_type, call.start_date, call.end_date),
                                call.limit, NoKey, FALSE)
           IN  Range(result.data) = Range(ParseItems(ItemsOf(tbl, indexed.Items), "processedData"))

\* C6: deleting an id that is not in the table is a reported outcome: the
\* result has success false and a message, carries no error field, differs
\* from the envelope of a store error, and the store is unchanged.
C6_NotFoundReported ==
    [][(/\ pc = "idle"
        /\ pc' = "returned"
        /\ call'.op = "delete_activity_log"
        /\ ~call'.store_failed
        /\ call'.activity_id \notin DOMAIN db.ActivityLog)
       => /\ db' = db
          /\ result'.success = FALSE
          /\ DOMAIN result' = {"success", "message"}
          /\ "error" \notin DOMAIN result'
          /\ result' # ExceptEnvelope.result]_vars

C6_Witness ==
    /\ pc = "returned"
    /\ call.op = "delete_activity_log"
    /\ ~call.store_failed
    /\ ~result.success
    /\ "message" \in DOMAIN result
    /\ db.ActivityLog # <<>>

\* C7: deleting an id that is in the table removes exactly that item,
\* returns its full prior state, and leaves every other item of both tables
\* unchanged, whoever owns the item.
C7_DeleteOneExact ==
    [][(/\ pc = "idle"
        /\ pc' = "returned"
        /\ call'.op = "delete_activity_log"
        /\ ~call'.store_failed
        /\ call'.activity_id \in DOMAIN db.ActivityLog)
       => /\ result'.success
          /\ result'.deleted_item = db.ActivityLog[call'.activity_id]
          /\ DOMAIN db'.ActivityLog = DOMAIN db.ActivityLog \ {call'.activity_id}
          /\ \A i \in DOMAIN db'.ActivityLog : db'.ActivityLog[i] = db.ActivityLog[i]
          /\ db'.MemoryEntry = db.MemoryEntry]_vars

C7_Witness ==
    /\ pc = "returned"
    /\ call.op = "delete_activity_log"
    /\ result.success
    /\ result.deleted_item.user_name = "B"
    /\ \E i \in DOMAIN db.ActivityLog : db.ActivityLog[i].user_name = "B"
    /\ db.MemoryEntry # <<>>

KnownTool(name) == name \in {"create_activity_log", "get_activity_logs"}

BindsTool(name, arguments) ==
    IF name = "create_activity_log"
    THEN Binds(arguments, {"activity_type", "raw_input"}, {"activity_type", "raw_input", "owner"})
    ELSE Binds(arguments, {}, {"owner", "limit"})

\* C8 as stated: no invocation, whatever the operation name and arguments
\* and whatever store call fails, ends with a raised exception.
C8_NeverRaises == pc # "raised"

\* C8 as amended: every tool of main.py ends with a returned envelope, also
\* when a store call fails at any point; call_tool of server.py returns an
\* envelope for its two tool names when the arguments bind to the tool's
\* parameters, and raises for any other name or arguments.
C8_RaisesOnlyOutsideTools ==
    /\ pc = "raised"
        => /\ call.op = "call_tool"
           /\ ~KnownTool(call.name) \/ ~BindsTool(call.name, call.arguments)
           /\ result = NoResult
    /\ pc = "returned"
        => /\ "success" \in DOMAIN result
           /\ result.success \in BOOLEAN
    /\ (pc \in {"returned", "raised"} /\ call.op = "call_tool"
            /\ KnownTool(call.name) /\ BindsTool(call.name, call.arguments))
        => pc = "returned"

C8_Witness ==
    /\ Swept
    /\ ~result.success
    /\ call.pages >= 2
    /\ call.deleted_count >= 1
    /\ call.Items # <<>>

\* C9 as stated: every result is either success = true with a data field or
\* success = false with an error field.
C9_TwoShapes ==
    pc = "returned"
        => IF result.success THEN "data" \in DOMAIN result ELSE "error" \in DOMAIN result

\* C9 as amended: every result carries a boolean success; a failed store
\* call gives success = false with an error field and nothing else; create
\* gives data, list gives data and count = the number of items in data,
\* delete by id gives deleted_item when found and success = false with a
\* message and no error when not found, a sweep gives deleted_count and
\* user_name; neither delete carries a data field.
C9_EnvelopeShapes ==
    pc = "returned"
        => /\ result.success \in BOOLEAN
           /\ ~result.success
                => \/ DOMAIN result = {"success", "error"}
                   \/ /\ call.op = "delete_activity_log"
                      /\ ~call.store_failed
                      /\ DOMAIN result = {"success", "message"}
           /\ (result.success /\ (call.op \in CreateOps \/ (call.op = "call_tool" /\ call.name = "create_activity_log")))
                => DOMAIN result = {"success", "message", "data"}
           /\ (result.success /\ (call.op \in {"get_activity_logs", "get_memory_entries"}
                                    \/ (call.op = "call_tool" /\ call.name = "get_activity_logs")))
                => /\ DOMAIN result = {"success", "count", "data"}
                   /\ result.count = Len(result.data)
           /\ (result.success /\ call.op = "delete_activity_log")
                => DOMAIN result = {"success", "message", "deleted_item"}
           /\ (result.success /\ call.op \in SweepOps)
                => /\ DOMAIN result = {"success", "message", "deleted_count", "user_name"}
                   /\ result.user_name = call.user_name

C9_Witness ==
    /\ SweptOk
    /\ result.deleted_count >= 1
    /\ "data" \notin DOMAIN result

\* C10 as stated: when a store failure interrupts a sweep after k items were
\* deleted, the result carries a count equal to k.
C10_FailureCarriesCount ==
    (Swept /\ ~result.success /\ call.deleted_count >= 1)
        => /\ "deleted_count" \in DOMAIN result
           /\ result.deleted_count = call.deleted_count

\* C10 as amended: when a store failure interrupts a sweep after k items
\* were deleted, the result is the failure envelope (success = false and an
\* error, no count), and the k items stay deleted: with no concurrent write
\* the user is left with the items it had minus those k.
C10_FailureKeepsDeletes ==
    (Swept /\ ~result.success)
        => /\ DOMAIN result = {"success", "error"}
           /\ Cardinality(call.deleted) = call.deleted_count
           /\ call.concurrent = {}
                => /\ call.deleted \cap DOMAIN db[call.table] = {}
                   /\ Cardinality(OwnedBy(db[call.table], call.user_name))
                        = call.owned - call.deleted_count

C10_Witness ==
    /\ Swept
    /\ ~result.success
    /\ call.deleted_count >= 2
    /\ call.concurrent = {}
    /\ OwnedBy(db[call.table], call.user_name) # {}

Created == pc = "returned" /\ call.op \in CreateOps /\ result.success

DataIds == {result.data[k].id : k \in 1..Len(result.data)}

\* C11: a create whose payload is outside a declared bound (glycemic_load
\* outside 0..50, duration_min < 1, duration_hours outside 0..24, quantity
\* < 1, dosage < 0) is rejected before the body of the tool runs: no store
\* call is made, the store is unchanged and no result envelope is built.
C11_RejectedBeforeStore ==
    [][(/\ pc = "idle"
        /\ call'.op \in CreateOps
        /\ LET p == call'.processed_data
           IN  \/ "glycemic_load" \in DOMAIN p /\ (p.glycemic_load < 0 \/ p.glycemic_load > 50)
               \/ "duration_min" \in DOMAIN p /\ p.duration_min < 1
               \/ "duration_hours" \in DOMAIN p /\ (p.duration_hours < 0 \/ p.duration_hours > 24)
               \/ "quantity" \in DOMAIN p /\ p.quantity < 1
               \/ "dosage" \in DOMAIN p /\ p.dosage < 0)
       => /\ pc' = "rejected"
          /\ db' = db
          /\ clock' = clock
          /\ result' = NoResult]_vars

C11_Witness ==
    /\ pc = "rejected"
    /\ call.op = "create_sleep_activity_log"
    /\ call.processed_data.duration_hours > 24
    /\ db.ActivityLog # <<>>

\* C12: whenever a user_name argument is supplied to get_activity_logs or
\* get_memory_entries, every item of the returned data has that user_name,
\* for every value of the argument and on both paths.
C12_NoCrossUserLeak ==
    (Listed /\ call.user_name # None)
        => \A k \in 1..Len(result.data) : result.data[k].user_name = call.user_name

\* C13: every successful create stores its item under an id that no stored
\* item of its table has, so it overwrites nothing and the store grows by
\* one item.
C13_IdsUnique ==
    [][(pc = "idle" /\ pc' = "returned" /\ call'.op \in CreateOps /\ result'.success)
       => /\ result'.data.id \notin DOMAIN db[call'.table]
          /\ Cardinality(DOMAIN db'[call'.table]) = Cardinality(DOMAIN db[call'.table]) + 1]_vars

C15_UserNameStored ==
    Created
        => /\ result.data.user_name = call.user_name
           /\ db[call.table][result.data.id].user_name = call.user_name

\* C16 as stated: the stored timestamp is the timestamp argument when one is
\* supplied and the creation time (createdAt) when it is omitted.
C16_TimestampAsGiven ==
    (Created /\ call.op \in ActivityCreateOps)
        => LET item == db.ActivityLog[result.data.id]
           IN  item.timestamp = IF call.timestamp # NoDate THEN call.timestamp ELSE item.createdAt

\* C16 as amended: the stored timestamp is the timestamp argument when it is
\* a non-empty string, and the creation time (the value of createdAt) when
\* it is omitted or the empty string.
C16_TimestampOrCreation ==
    (Created /\ call.op \in ActivityCreateOps)
        => LET item == db.ActivityLog[result.data.id]
           IN  /\ item.createdAt = clock
               /\ item = result.data
               /\ item.timestamp = IF call.timestamp \notin {NoDate, EmptyDate}
                                   THEN call.timestamp
                                   ELSE item.createdAt

C16_Witness ==
    /\ Created
    /\ call.op = "create_generic_activity_log"
    /\ call.timestamp = EmptyDate
    /\ result.data.timestamp = result.data.createdAt
    /\ \E i \in DOMAIN db.ActivityLog : db.ActivityLog[i].timestamp = 2 /\ db.ActivityLog[i].createdAt # 2

\* C17: get_activity_logs reads one page: what it returns is what the first
\* limit items of the path it takes (the partition of the user on the index,
\* the whole table on a scan) leave after the filters; matching items after
\* those are not fetched; it returns at most limit items and count is the
\* number of items in data.
C17_OnePage ==
    (Listed /\ call.op = "get_activity_logs")
        => LET tbl == db.ActivityLog
               keys == IF call.path = "query" THEN OwnedBy(tbl, call.user_name) ELSE DOMAIN tbl
               page == Range(Take(Ascending(keys), call.limit))
               Passes(item) ==
                   /\ call.user_name # None => item.user_name = call.user_name
                   /\ call.activity_type # None => item.activityType = call.activity_type
                   /\ call.start_date # NoDate => item.timestamp >= call.start_date
                   /\ call.end_date # NoDate => item.timestamp <= call.end_date
           IN  /\ Len(result.data) <= call.limit
               /\ result.count = Len(result.data)
               /\ Cardinality(DataIds) = Len(result.data)
               /\ DataIds = {i \in page : Passes(tbl[i])}

C17_Witness ==
    /\ Listed
    /\ call.op = "get_activity_logs"
    /\ call.user_name = "A"
    /\ call.activity_type = None
    /\ call.start_date = NoDate
    /\ call.end_date = NoDate
    /\ call.limit = 1
    /\ call.path = "query"
    /\ Len(result.data) = 1
    /\ Cardinality(OwnedBy(db.ActivityLog, "A")) = 3

LaterReadRaised ==
    Swept /\ ~result.success /\ call.pages >= 1 /\ call.Items = <<>> /\ LoopContinues(call)

\* C21 as stated: no failure of an indexed query reaches the caller, the
\* queries a sweep issues for its second and later pages included.
C21_IndexFailureNeverSurfaces == ~(LaterReadRaised /\ call.read = "query")

\* C21 as amended: a failure of the first indexed query of a list or of a
\* sweep is caught and the fallback scan is made in its place: the call
\* fails at its first read only when that scan fails too, and otherwise
\* goes on with what the scan returned.  A failure of an indexed query for
\* a second or later page of a sweep ends the call with the failure
\* envelope, and the items deleted so far stay deleted.
C21_FirstIndexFailureFallsBack ==
    /\ (pc = "returned" /\ call.op = "get_activity_logs")
        => /\ ~result.success => call.path = "scan"
           /\ (result.success /\ call.path = "scan")
                => LET tbl == db.ActivityLog
                   IN  DataIds = Range(Scan(tbl, FallbackFilter(tbl, call.user_name, None, NoDate, NoDate),
                                            call.limit, NoKey, FALSE).Items)
    /\ (pc \in {"deleting", "returned"} /\ call.op \in SweepOps)
        => /\ call.fallback = "unused" <=> call.using_query
           /\ call.fallback = "done" => call.pages >= 1 /\ call.read = "scan"
           /\ call.fallback = "raised" <=> (pc = "returned" /\ ~result.success /\ call.pages = 0)
           /\ (call.pages = 1 /\ call.deleted = {} /\ ~call.using_query)
                => Range(call.Items) = OwnedBy(db[call.table], call.user_name)
                                          \cap Range(Take(Ascending(DOMAIN db[call.table]), PageSize))
    /\ LaterReadRaised
        => /\ result = ExceptEnvelope.result
           /\ call.deleted \cap DOMAIN db[call.table] = {}
           /\ Cardinality(call.deleted) = call.deleted_count

C21_Witness ==
    /\ LaterReadRaised
    /\ call.read = "query"
    /\ call.deleted_count = PageSize
    /\ OwnedBy(db[call.table], call.user_name) # {}

\* The ids among the first n of keys, in key order.
FirstOf(keys, n) == Range(Take(Ascending(keys), n))

\* C22: the fallback scan applies the predicate the indexed path applies.
\* A list of ActivityLog returns the examined items whose user_name is the
\* user, whose activityType is the type and whose timestamp lies between
\* start_date and end_date (each only when supplied); a list of MemoryEntry
\* those whose user_name is the user and whose entryType is the type; the
\* first page of a sweep those whose user_name is the user.  The indexed
\* path examines the items of the user in the index, which may lack the
\* last write; the fallback examines the items of the table as it is now.
C22_SamePredicate ==
    /\ (Listed /\ call.op = "get_activity_logs" /\ Truthy(call.user_name))
        => LET src == IF call.path = "query" THEN Index("ActivityLog") ELSE db.ActivityLog
               examined == IF call.path = "query"
                           THEN FirstOf(OwnedBy(src, call.user_name), call.limit)
                           ELSE FirstOf(DOMAIN src, call.limit)
           IN  DataIds = {i \in examined :
                             /\ src[i].user_name = call.user_name
                             /\ call.activity_type # None => src[i].activityType = call.activity_type
                             /\ call.start_date # NoDate => src[i].timestamp >= call.start_date
                             /\ call.end_date # NoDate => src[i].timestamp <= call.end_date}
    /\ (Listed /\ call.op = "get_memory_entries")
        => LET src == IF call.path = "query" THEN Index("MemoryEntry") ELSE db.MemoryEntry
               examined == IF call.path = "query"
                           THEN FirstOf(OwnedBy(src, call.user_name), call.limit)
                           ELSE FirstOf(DOMAIN src, call.limit)
           IN  DataIds = {i \in examined :
                             /\ src[i].user_name = call.user_name
                             /\ call.entry_type # None => src[i].entryType = call.entry_type}
    /\ (pc = "deleting" /\ call.op \in SweepOps /\ call.pages = 1 /\ call.deleted = {})
        => LET src == IF call.read = "query" THEN Index(call.table) ELSE db[call.table]
               examined == IF call.read = "query"
                           THEN FirstOf(OwnedBy(src, call.user_name), PageSize)
                           ELSE FirstOf(DOMAIN src, PageSize)
           IN  Range(call.Items) = {i \in examined : src[i].user_name = call.user_name}

C22_Witness ==
    /\ Listed
    /\ call.op = "get_activity_logs"
    /\ call.path = "scan"
    /\ call.user_name = "A"
    /\ call.activity_type = "food"
    /\ call.start_date = 2
    /\ call.limit = PageSize
    /\ Cardinality(OwnedBy(db.ActivityLog, "A")) = 2
    /\ made.table = "ActivityLog"
    /\ ~made.indexed
    /\ DataIds = {made.item.id}

\* C23: a list of ActivityLog called without a user_name takes the scan,
\* whatever the state of the index: it reads the table as it is now, the
\* last write included, and returns the examined items that pass the type
\* and time filters supplied, all of them when none is supplied.
C23_NoOwnerScans ==
    (pc = "returned" /\ call.op = "get_activity_logs" /\ ~Truthy(call.user_name))
        => LET tbl == db.ActivityLog
               examined == FirstOf(DOMAIN tbl, call.limit)
           IN  /\ call.path = "scan"
               /\ result.success
               /\ DataIds = {i \in examined :
                                /\ call.activity_type # None => tbl[i].activityType = call.activity_type
                                /\ call.start_date # NoDate => tbl[i].timestamp >= call.start_date
                                /\ call.end_date # NoDate => tbl[i].timestamp <= call.end_date}
               /\ (call.activity_type = None /\ call.start_date = NoDate /\ call.end_date = NoDate)
                    => DataIds = examined

C23_Witness ==
    /\ Listed
    /\ call.op = "get_activity_logs"
    /\ call.user_name = None
    /\ call.activity_type = "food"
    /\ call.start_date = NoDate
    /\ call.limit = PageSize
    /\ Cardinality(DOMAIN db.ActivityLog) = 2
    /\ \E i \in DOMAIN db.ActivityLog : db.ActivityLog[i].activityType = "exercise"
    /\ made.table = "ActivityLog"
    /\ ~made.indexed
    /\ DataIds = {made.item.id}

\* C24: a list whose read succeeded returns success whatever the payloads
\* hold.  The payload field (processedData, data for memory entries) of each
\* returned item is the parsed object when the stored value is a string that
\* parses, and the stored value itself, unchanged, when it is a string that
\* does not parse or is not a string; one such item does not keep the
\* others from being parsed.
C24_UnparsedPassesThrough ==
    /\ (pc = "returned" /\ call.op \in {"get_activity_logs", "get_memory_entries"} /\ call.path = "query")
        => result.success
    /\ Listed
        => LET field == IF call.op = "get_activity_logs" THEN "processedData" ELSE "data"
               tbl == db[call.table]
           IN  \A k \in 1..Len(result.data) :
                  LET stored == tbl[result.data[k].id][field]
                  IN  /\ result.data[k][field] =
                            IF "json" \in DOMAIN stored THEN JsonLoads(stored) ELSE stored
                      /\ "json" \notin DOMAIN result.data[k][field]
                      /\ [result.data[k] EXCEPT ![field] = stored] = tbl[result.data[k].id]

C24_Witness ==
    /\ Listed
    /\ call.op = "get_activity_logs"
    /\ Len(result.data) = 2
    /\ "text" \in DOMAIN result.data[1].processedData
    /\ result.data[1].processedData = db.ActivityLog[result.data[1].id].processedData
    /\ "duration_min" \in DOMAIN result.data[2].processedData

\* Both invocations, the sweep and the second delete, returned success.
BothDone == SweptOk /\ peer.pc = "returned" /\ peer.result.success

C26_HandleBuiltOnce ==
    [][/\ \A m \in Modules :
            /\ dynamodb'[m] \in {NoResource, 1}
            /\ dynamodb[m] # NoResource => dynamodb'[m] = dynamodb[m]
       /\ (pc = "idle" /\ pc' \in {"returned", "deleting"})
            => dynamodb'[IF call'.op = "call_tool" THEN "server" ELSE "main"] = 1
       /\ (pc = "idle" /\ pc' \in {"rejected", "raised"}) => dynamodb' = dynamodb]_vars

C26_Witness ==
    /\ pc = "returned"
    /\ call.op = "delete_activity_log"
    /\ result.success
    /\ dynamodb = [m \in Modules |-> 1]
    /\ db.ActivityLog # <<>>
    /\ "processedData" \notin DOMAIN result.deleted_item

\* C27: no step of a sweep of user A writes an item, and the only items a
\* step removes are items of the swept table whose user_name is A: every
\* item of another user, every item without a user_name and every item of
\* the other table is left as it was, on both paths.
C27_SweepTouchesOnlyOwner ==
    [][/\ (pc = "idle" /\ call'.op \in SweepOps) => db' = db
       /\ (pc = "deleting" /\ call.op \in SweepOps)
            => \A t \in Tables :
                  /\ DOMAIN db'[t] \subseteq DOMAIN db[t]
                  /\ \A i \in DOMAIN db[t] :
                        (t # call.table \/ db[t][i].user_name # call.user_name)
                            => i \in DOMAIN db'[t] /\ db'[t][i] = db[t][i]]_vars

C27_Witness ==
    /\ SweptOk
    /\ call.op = "delete_all_user_activities"
    /\ call.user_name = "A"
    /\ ~call.using_query
    /\ result.deleted_count = 1
    /\ \E i \in DOMAIN db.ActivityLog : db.ActivityLog[i].user_name = NoAttr
    /\ \E i \in DOMAIN db.MemoryEntry : db.MemoryEntry[i].user_name = "A"

\* C28: a sweep with no other writer terminates.  Each read for a later
\* page starts after the key the page before ended at, so no page is read
\* twice; when a page comes back with no LastEvaluatedKey and its items are
\* deleted, the next step returns the result; and a sweep that has started
\* always comes to return.
C28_SweepTerminates ==
    /\ [][/\ (pc = "deleting" /\ pc' = "deleting" /\ call'.pages # call.pages)
               => /\ call.Items = <<>>
                  /\ call.LastEvaluatedKey # NoKey
                  /\ call'.pages = call.pages + 1
                  /\ \A i \in Range(call'.Items) : i > call.LastEvaluatedKey
                  /\ (call'.LastEvaluatedKey # NoKey
                        => call'.LastEvaluatedKey > call.LastEvaluatedKey)
          /\ (pc = "deleting" /\ call.Items = <<>> /\ call.LastEvaluatedKey = NoKey)
               => /\ pc' = "returned"
                  /\ result'.success
                  /\ result'.deleted_count = call.deleted_count]_vars
    /\ (pc = "deleting") ~> (pc = "returned")

C28_Witness ==
    /\ SweptOk
    /\ call.pages = 2
    /\ result.deleted_count > PageSize
    /\ call.using_query

\* C29: in one sweep the first page's indexed query decides the access
\* path: the first page, when read at all, is read by the query if it
\* succeeded and by the consistent scan if it failed, and every later page is
\* read by that same path; no step of the sweep changes the choice.
C29_PathChosenOnce ==
    [][/\ (pc' = "deleting" /\ call'.op \in SweepOps)
          => call'.read = (IF call'.using_query THEN "query" ELSE "scan")
       /\ (pc = "deleting" /\ call.op \in SweepOps /\ pc' \in {"deleting", "returned"})
          => /\ call'.using_query = call.using_query
             /\ call'.read = call.read
       /\ (pc = "idle" /\ pc' = "deleting" /\ call'.op \in SweepOps)
          => call'.using_query = (call'.fallback = "unused")]_vars

C29_Witness ==
    /\ SweptOk
    /\ call.pages >= 2
    /\ ~call.using_query
    /\ call.fallback = "done"
    /\ call.read = "scan"
    /\ result.deleted_count >= 2

====
